---- MODULE Spec2Model ----
(***************************************************************************)
(* Bitcoin-Block prediction game: the in-memory table store                *)
(* (MockDatabase), the connection manager (connectToSpacetime), the React  *)
(* provider (GameProvider) that mirrors the tables into rendered state,    *)
(* and the winner-resolution polling effect.                               *)
(*                                                                         *)
(* The provider's callbacks read the state of the last render (closures);  *)
(* table notifications queue state updaters that a later render applies.   *)
(***************************************************************************)
EXTENDS Integers, Sequences, FiniteSets, TLC

(***************************************************************************)
(* Bounds of the model                                                     *)
(***************************************************************************)
MaxOps      == 4        \* reducer calls made by callers
MaxRounds   == 2        \* createRound calls
MaxGuesses  == 3        \* submitGuess reducer calls
MaxChat     == 2        \* addChatMessage calls by callers
MaxConfigs  == 3        \* savePrizeConfig calls
MaxResults  == 1        \* updateRoundResult calls by callers
MaxTicks    == 2        \* polling ticks started
MaxAttempts == 5        \* connection builds
MaxNow      == 120000   \* clock limit (ms)
ClockStep   == 60000    \* clock advance (ms)
MaxStored   == 101      \* chat rows already stored when the provider mounts
MaxSel      == 3        \* guesses drawn for winner selection
MaxSubscribers == 2     \* further listeners registered on the rounds table
MaxIterations  == 1     \* iterations obtained from iter()
MaxUnsubscribes == 2    \* calls of the functions returned by onInsert

(***************************************************************************)
(* Program constants                                                       *)
(***************************************************************************)
MAX_RETRIES    == 3
CHAT_LIMIT     == 100
PAD_LENGTH     == 40
DEFAULT_DURATION == 10

Null    == <<>>
Some(v) == <<v>>
IsSet(o) == o # <<>>
Val(o)  == o[1]

(***************************************************************************)
(* Strings of digits: String(bigint), BigInt(string), toString(16),        *)
(* padStart.  A decimal or hexadecimal string is the sequence of its       *)
(* digit values.                                                           *)
(***************************************************************************)
RECURSIVE String(_)
String(n) == IF n < 10 THEN <<n>> ELSE Append(String(n \div 10), n % 10)

RECURSIVE BigInt(_)
BigInt(s) == IF Len(s) = 0 THEN 0
             ELSE BigInt(SubSeq(s, 1, Len(s) - 1)) * 10 + s[Len(s)]

RECURSIVE toString16(_)
toString16(n) == IF n < 16 THEN <<n>> ELSE Append(toString16(n \div 16), n % 16)

RECURSIVE padStart(_, _)
padStart(s, len) == IF Len(s) >= len THEN s ELSE padStart(<<0>> \o s, len)

RECURSIVE BigIntHex(_)
BigIntHex(s) == IF Len(s) = 0 THEN 0
                ELSE BigIntHex(SubSeq(s, 1, Len(s) - 1)) * 16 + s[Len(s)]

\* `0x${fid.toString(16).padStart(40, '0')}`
fidToAddress(fid) == [prefix |-> "0x", hex |-> padStart(toString16(fid), PAD_LENGTH)]

\* address.toLowerCase().startsWith('0x') ? address.slice(2) : address ; BigInt('0x' + hex)
addressToBigInt(address) == BigIntHex(address.hex)

toMillis(bigintSeconds) == bigintSeconds * 1000

\* BigInt(Math.floor(Date.now() / 1000))
nowSeconds(ms) == ms \div 1000

Abs(x) == IF x < 0 THEN -x ELSE x

(***************************************************************************)
(* Map<bigint, Row>: insertion-ordered; set() on a present key replaces    *)
(* the value in place, on an absent key appends.                           *)
(***************************************************************************)
MapHas(m, k) == \E i \in DOMAIN m : m[i].key = k
MapGet(m, k) == m[CHOOSE i \in DOMAIN m : m[i].key = k].val
MapSet(m, k, v) ==
    IF MapHas(m, k)
    THEN [i \in DOMAIN m |-> IF m[i].key = k THEN [key |-> k, val |-> v] ELSE m[i]]
    ELSE Append(m, [key |-> k, val |-> v])
MapValues(m) == [i \in DOMAIN m |-> m[i].val]
MapKeys(m)   == [i \in DOMAIN m |-> m[i].key]

SeqMap(Op(_), s) == [i \in DOMAIN s |-> Op(s[i])]

RECURSIVE SeqFilter(_, _)
SeqFilter(Test(_), s) ==
    IF Len(s) = 0 THEN <<>>
    ELSE IF Test(Head(s)) THEN <<Head(s)>> \o SeqFilter(Test, Tail(s))
         ELSE SeqFilter(Test, Tail(s))

Take(s, n) == SubSeq(s, 1, IF Len(s) < n THEN Len(s) ELSE n)


(***************************************************************************)
(* MockDatabase: the five tables, their id counters, and the reducers.     *)
(* A reducer maps a database value to the new database value and the       *)
(* notifications handed to the listeners, in order.                        *)
(***************************************************************************)
EmptyDb ==
    [rounds |-> <<>>, guesses |-> <<>>, chatMessages |-> <<>>, logs |-> <<>>,
     prizeConfigs |-> <<>>,
     roundIdCounter |-> 1, guessIdCounter |-> 1, chatIdCounter |-> 1,
     logIdCounter |-> 1, configIdCounter |-> 1]

\* private addLog(eventType, details)
addLog(d, eventType, details, ms) ==
    LET logId == d.logIdCounter
        log   == [logId |-> logId, eventType |-> eventType, details |-> details,
                  timestamp |-> nowSeconds(ms)]
    IN  [d EXCEPT !.logIdCounter = @ + 1,
                  !.logs = MapSet(@, logId, log)]

\* variant: the duration is added to the start time without the conversion
\* from minutes to seconds
db_createRound_minutesAsSeconds(d, roundNumber, durationMinutes, prize, blockNumber, ms) ==
    LET roundId == d.roundIdCounter
        now     == nowSeconds(ms)
        round   == [roundId |-> roundId, roundNumber |-> roundNumber,
                    startTime |-> now, endTime |-> now + durationMinutes,
                    durationMinutes |-> durationMinutes, prize |-> prize,
                    status |-> "open", blockNumber |-> blockNumber,
                    actualTxCount |-> Null, winningFid |-> Null,
                    blockHash |-> Null, createdAt |-> now]
        d1      == [d EXCEPT !.roundIdCounter = @ + 1,
                             !.rounds = MapSet(@, roundId, round)]
    IN  [db |-> addLog(d1, "round_created", <<roundNumber, blockNumber, prize, durationMinutes>>, ms),
         ev |-> <<[table |-> "rounds", op |-> "insert", row |-> round]>>]

db_createRound(d, roundNumber, durationMinutes, prize, blockNumber, ms) ==
    LET roundId == d.roundIdCounter
        now     == nowSeconds(ms)
        round   == [roundId |-> roundId, roundNumber |-> roundNumber,
                    startTime |-> now, endTime |-> now + (durationMinutes * 60),
                    durationMinutes |-> durationMinutes, prize |-> prize,
                    status |-> "open", blockNumber |-> blockNumber,
                    actualTxCount |-> Null, winningFid |-> Null,
                    blockHash |-> Null, createdAt |-> now]
        d1      == [d EXCEPT !.roundIdCounter = @ + 1,
                             !.rounds = MapSet(@, roundId, round)]
    IN  [db |-> addLog(d1, "round_created", <<roundNumber, blockNumber, prize, durationMinutes>>, ms),
         ev |-> <<[table |-> "rounds", op |-> "insert", row |-> round]>>]

\* variant: the guess id counter is read but not advanced
db_submitGuess_sameId(d, roundId, fid, username, guess, pfpUrl, ms) ==
    LET guessId == d.guessIdCounter
        guessEntry == [guessId |-> guessId, roundId |-> roundId, fid |-> fid,
                       username |-> username, guess |-> guess,
                       pfpUrl |-> pfpUrl, submittedAt |-> nowSeconds(ms)]
        d1 == [d EXCEPT !.guesses = MapSet(@, guessId, guessEntry)]
    IN  [db |-> addLog(d1, "guess_submitted", <<username, guess>>, ms),
         ev |-> <<[table |-> "guesses", op |-> "insert", row |-> guessEntry]>>]

db_submitGuess(d, roundId, fid, username, guess, pfpUrl, ms) ==
    LET guessId == d.guessIdCounter
        guessEntry == [guessId |-> guessId, roundId |-> roundId, fid |-> fid,
                       username |-> username, guess |-> guess,
                       pfpUrl |-> pfpUrl, submittedAt |-> nowSeconds(ms)]
        d1 == [d EXCEPT !.guessIdCounter = @ + 1,
                        !.guesses = MapSet(@, guessId, guessEntry)]
    IN  [db |-> addLog(d1, "guess_submitted", <<username, guess>>, ms),
         ev |-> <<[table |-> "guesses", op |-> "insert", row |-> guessEntry]>>]

\* sendChatMessage appends no log entry
db_sendChatMessage(d, roundId, address, username, message, pfpUrl, msgType, ms) ==
    LET chatId  == d.chatIdCounter
        chatMsg == [chatId |-> chatId, roundId |-> roundId, address |-> address,
                    username |-> username, message |-> message, pfpUrl |-> pfpUrl,
                    timestamp |-> nowSeconds(ms), msgType |-> msgType]
    IN  [db |-> [d EXCEPT !.chatIdCounter = @ + 1,
                          !.chatMessages = MapSet(@, chatId, chatMsg)],
         ev |-> <<[table |-> "chatMessages", op |-> "insert", row |-> chatMsg]>>]

\* variant: ending a round also moves its end time to the time of the call
db_endRoundManually_movesEndTime(d, roundId, ms) ==
    IF ~MapHas(d.rounds, roundId)
    THEN [db |-> d, ev |-> <<>>]
    ELSE LET round == [MapGet(d.rounds, roundId) EXCEPT !.status = "closed",
                                                        !.endTime = nowSeconds(ms)]
             d1    == [d EXCEPT !.rounds = MapSet(@, roundId, round)]
         IN  [db |-> addLog(d1, "round_ended", <<roundId>>, ms),
              ev |-> <<[table |-> "rounds", op |-> "update", row |-> round]>>]

db_endRoundManually(d, roundId, ms) ==
    IF ~MapHas(d.rounds, roundId)
    THEN [db |-> d, ev |-> <<>>]
    ELSE LET round == [MapGet(d.rounds, roundId) EXCEPT !.status = "closed"]
             d1    == [d EXCEPT !.rounds = MapSet(@, roundId, round)]
         IN  [db |-> addLog(d1, "round_ended", <<roundId>>, ms),
              ev |-> <<[table |-> "rounds", op |-> "update", row |-> round]>>]

db_updateRoundResult(d, roundId, actualTxCount, blockHash, winningFid, ms) ==
    IF ~MapHas(d.rounds, roundId)
    THEN [db |-> d, ev |-> <<>>]
    ELSE LET round == [MapGet(d.rounds, roundId) EXCEPT
                          !.status = "finished",
                          !.actualTxCount = Some(actualTxCount),
                          !.blockHash = Some(blockHash),
                          !.winningFid = Some(winningFid)]
             d1    == [d EXCEPT !.rounds = MapSet(@, roundId, round)]
         IN  [db |-> addLog(d1, "round_finished", <<roundId>>, ms),
              ev |-> <<[table |-> "rounds", op |-> "update", row |-> round]>>]

db_savePrizeConfig(d, jackpotAmount, firstPlaceAmount, secondPlaceAmount, currencyType, tokenContractAddress, ms) ==
    LET configId == d.configIdCounter
        config == [configId |-> configId, jackpotAmount |-> jackpotAmount,
                   firstPlaceAmount |-> firstPlaceAmount,
                   secondPlaceAmount |-> secondPlaceAmount,
                   currencyType |-> currencyType,
                   tokenContractAddress |-> tokenContractAddress,
                   updatedAt |-> nowSeconds(ms)]
        existing == Len(d.prizeConfigs) > 0
        d1 == [d EXCEPT !.configIdCounter = @ + 1,
                        !.prizeConfigs = MapSet(@, configId, config)]
    IN  [db |-> addLog(d1, "prize_config_saved",
                       <<jackpotAmount, currencyType, firstPlaceAmount, secondPlaceAmount>>, ms),
         ev |-> <<[table |-> "prizeConfigs",
                   op |-> IF existing THEN "update" ELSE "insert",
                   old |-> IF existing THEN Some(MapValues(d.prizeConfigs)[1]) ELSE Null,
                   row |-> config]>>]


(***************************************************************************)
(* GameProvider: conversion of table rows to the rendered records.         *)
(***************************************************************************)
convertRound(r) ==
    [id |-> String(r.roundId),
     roundNumber |-> r.roundNumber,
     startTime |-> toMillis(r.startTime),
     endTime |-> toMillis(r.endTime),
     prize |-> r.prize,
     status |-> r.status,
     blockNumber |-> IF IsSet(r.blockNumber) /\ Val(r.blockNumber) # 0
                     THEN r.blockNumber ELSE Null,
     actualTxCount |-> IF IsSet(r.actualTxCount) /\ Val(r.actualTxCount) # 0
                       THEN r.actualTxCount ELSE Null,
     winningAddress |-> IF IsSet(r.winningFid) /\ Val(r.winningFid) # 0
                        THEN Some(fidToAddress(Val(r.winningFid))) ELSE Null,
     blockHash |-> IF IsSet(r.blockHash) /\ Val(r.blockHash) # "" THEN r.blockHash ELSE Null,
     createdAt |-> toMillis(r.createdAt),
     duration |-> r.durationMinutes]

\* variant: the address is rebuilt without padding to 40 digits
convertGuess_unpadded(g) ==
    [id |-> String(g.guessId),
     roundId |-> String(g.roundId),
     address |-> [prefix |-> "0x", hex |-> toString16(g.fid)],
     username |-> g.username,
     guess |-> g.guess,
     pfpUrl |-> g.pfpUrl,
     submittedAt |-> toMillis(g.submittedAt)]

convertGuess(g) ==
    [id |-> String(g.guessId),
     roundId |-> String(g.roundId),
     address |-> fidToAddress(g.fid),
     username |-> g.username,
     guess |-> g.guess,
     pfpUrl |-> g.pfpUrl,
     submittedAt |-> toMillis(g.submittedAt)]

convertChatMsg(c) ==
    [id |-> String(c.chatId),
     roundId |-> c.roundId,
     address |-> c.address,
     username |-> c.username,
     message |-> c.message,
     pfpUrl |-> c.pfpUrl,
     timestamp |-> toMillis(c.timestamp),
     type |-> c.msgType]

convertPrizeConfig(p) ==
    [id |-> p.configId,
     jackpotAmount |-> String(p.jackpotAmount),
     firstPlaceAmount |-> String(p.firstPlaceAmount),
     secondPlaceAmount |-> String(p.secondPlaceAmount),
     currencyType |-> p.currencyType,
     tokenContractAddress |-> p.tokenContractAddress,
     updatedAt |-> toMillis(p.updatedAt)]

\* prizeConfigs_table.getLatest(): the last row in insertion order, or null
getLatest(d) ==
    IF Len(d.prizeConfigs) = 0 THEN Null
    ELSE Some(MapValues(d.prizeConfigs)[Len(d.prizeConfigs)])

(***************************************************************************)
(* Array.prototype.sort(compare): a stable sort.  cmp(a, b) < 0 puts a     *)
(* before b; elements that compare equal keep their order.  The element    *)
(* at index i lands behind the elements that sort before it.               *)
(***************************************************************************)
sort(cmp(_, _), s) ==
    LET n == Len(s)
        Before(j, i) == \/ cmp(s[j], s[i]) < 0
                        \/ cmp(s[j], s[i]) = 0 /\ j < i
        Rank(i) == Cardinality({j \in 1..n : Before(j, i)}) + 1
    IN  [k \in 1..n |-> s[CHOOSE i \in 1..n : Rank(i) = k]]

(***************************************************************************)
(* The state updaters queued by the subscription listeners and by the      *)
(* initial loads.                                                          *)
(***************************************************************************)
HasId(list, id) == \E i \in DOMAIN list : list[i].id = id

\* setRounds(prev => exists ? prev : [...prev, converted])
roundsOnInsert(prev, converted) ==
    IF HasId(prev, converted.id) THEN prev ELSE Append(prev, converted)

\* setRounds(prev => prev.map(r => r.id === converted.id ? converted : r))
roundsOnUpdate(prev, converted) ==
    [i \in DOMAIN prev |-> IF prev[i].id = converted.id THEN converted ELSE prev[i]]

\* setGuesses(prev => exists ? prev : [...prev, converted])
guessesOnInsert(prev, converted) ==
    IF HasId(prev, converted.id) THEN prev ELSE Append(prev, converted)

\* variant: prepends without slicing
chatOnInsert_noSlice(prev, converted) ==
    IF HasId(prev, converted.id) THEN prev ELSE <<converted>> \o prev

\* setChatMessages(prev => exists ? prev : [converted, ...prev].slice(0, 100))
chatOnInsert(prev, converted) ==
    IF HasId(prev, converted.id) THEN prev
    ELSE Take(<<converted>> \o prev, CHAT_LIMIT)

chatCompare(a, b) == b.timestamp - a.timestamp

\* initialChat.sort((a, b) => b.timestamp - a.timestamp).slice(0, 100)
chatInitialLoad(initialChat) == Take(sort(chatCompare, initialChat), CHAT_LIMIT)

\* the listeners the provider registers: rounds (insert, update), guesses
\* (insert), chat messages (insert), prize configs (insert, update); each
\* converts the row when notified
Listened(e) == e.table \in {"rounds", "guesses", "chatMessages", "prizeConfigs"}

ConvertEvent(e) ==
    [table |-> e.table, op |-> e.op,
     row |-> IF e.table = "rounds" THEN convertRound(e.row)
             ELSE IF e.table = "guesses" THEN convertGuess(e.row)
             ELSE IF e.table = "chatMessages" THEN convertChatMsg(e.row)
             ELSE convertPrizeConfig(e.row)]

Notify(ev) == SeqMap(ConvertEvent, SeqFilter(Listened, ev))

\* if (initialConfigs.length > 0) setPrizeConfig(initialConfigs[0])
prizeConfigInitialLoad(d) ==
    LET initialConfigs == SeqMap(convertPrizeConfig, MapValues(d.prizeConfigs))
    IN  IF Len(initialConfigs) > 0
        THEN <<[table |-> "prizeConfigs", op |-> "load", rows |-> <<initialConfigs[1]>>]>>
        ELSE <<>>

\* the initial loads of the subscription effects, in effect order
InitialLoads(d) ==
    << [table |-> "rounds", op |-> "load",
        rows |-> SeqMap(convertRound, MapValues(d.rounds))],
       [table |-> "guesses", op |-> "load",
        rows |-> SeqMap(convertGuess, MapValues(d.guesses))],
       [table |-> "chatMessages", op |-> "load",
        rows |-> chatInitialLoad(SeqMap(convertChatMsg, MapValues(d.chatMessages)))] >>
    \o prizeConfigInitialLoad(d)


(***************************************************************************)
(* State                                                                   *)
(***************************************************************************)
VARIABLES
    db,            \* MockDatabase: tables and id counters
    now,           \* Date.now(), in milliseconds
    cm,            \* connection module: dbConnection, isConnecting, connectionError, retryCount
    conns,         \* the connections built so far and their transport state
    outcomes,      \* what happens to the n-th connection build
    retryTimers,   \* reconnect timers scheduled by onDisconnect and not fired yet
    initStarted,   \* the provider's initConnection effect has run
    client,        \* provider state: the connection handle (0 = null)
    connected,     \* provider state: the connectivity boolean
    rounds,        \* provider state (last render)
    guesses,       \* provider state (last render)
    chatMessages,  \* provider state (last render)
    prizeConfig,   \* provider state (last render)
    pending,       \* state updaters queued since the last render
    effect,        \* the live run of the auto-close effect, if any
    ticks,         \* the polling ticks started so far
    chain,         \* the block-data source
    sel,           \* winner selection applied to drawn inputs
    subs,          \* further insert listeners of the rounds table, and the last notification
    it             \* an iteration over the rounds table obtained from iter()

vars == <<db, now, cm, conns, outcomes, retryTimers, initStarted, client, connected,
          rounds, guesses, chatMessages, prizeConfig, pending, effect, ticks, chain, sel,
          subs, it>>

connVars   == <<cm, conns, outcomes, retryTimers, initStarted, client, connected>>
viewVars   == <<rounds, guesses, chatMessages, prizeConfig>>
engineVars == <<effect, ticks, chain>>
tableVars  == <<subs, it>>

(***************************************************************************)
(* Inputs                                                                  *)
(***************************************************************************)
Users ==
    { [address |-> fidToAddress(1), username |-> "alice", pfpUrl |-> "a.png"],
      [address |-> fidToAddress(2), username |-> "bob",   pfpUrl |-> "b.png"] }

TargetBlock  == 875420
GuessValues  == {90, 110}
TxCounts     == {100}
BlockHashes  == {"00ab"}
Durations    == {Some(2)}
Prizes       == {"5,000 $SECOND"}
Outcomes     == {"ok", "throw", "drop"}

NoWinner == [prefix |-> "0x", hex |-> <<0>>]      \* '0x0'

\* the documented guess range is 0 to 1M
MAX_GUESS == 1000000

\* arguments a caller may pass: an omitted, zero, negative or positive
\* duration; guesses at and beyond the ends of the documented range
DurationInputs == Durations \cup {Null, Some(0), Some(0 - 1)}
GuessInputs    == {0 - 1, 0, MAX_GUESS, MAX_GUESS + 1}

(***************************************************************************)
(* connectToSpacetime                                                      *)
(***************************************************************************)
CmInit == [dbConnection |-> 0, isConnecting |-> FALSE,
           connectionError |-> Null, retryCount |-> 0]

\* result: the connection handle, or 0 when the call throws
connectToSpacetime(c, cs, outs) ==
    IF c.dbConnection # 0
    THEN [cm |-> c, conns |-> cs, result |-> c.dbConnection]
    ELSE LET a == Len(cs) + 1
         IN  IF outs[a] = "throw"
             THEN [cm |-> [c EXCEPT !.connectionError = Some("error"),
                                    !.isConnecting = FALSE],
                   conns |-> Append(cs, "threw"), result |-> 0]
             ELSE [cm |-> [c EXCEPT !.connectionError = Null,
                                    !.dbConnection = a,
                                    !.isConnecting = FALSE],
                   conns |-> Append(cs, "pending"), result |-> a]

CanConnect == cm.dbConnection # 0 \/ Len(conns) < MaxAttempts

(***************************************************************************)
(* GameProvider callbacks.  cl is the closure: the provider state of the   *)
(* render in which the callback was created.                               *)
(***************************************************************************)
Closure == [client |-> client, connected |-> connected,
            rounds |-> rounds, guesses |-> guesses]

Find(list, id) == list[CHOOSE i \in DOMAIN list : list[i].id = id]

Refuse(d, why) == [ok |-> FALSE, refusal |-> why, db |-> d, ev |-> <<>>]
Done(r) == [ok |-> TRUE, refusal |-> "", db |-> r.db, ev |-> r.ev]

\* duration || 10
durationOrDefault(duration) ==
    IF IsSet(duration) /\ Val(duration) # 0 THEN Val(duration) ELSE DEFAULT_DURATION

\* variant: createRound calls the reducer without testing the connection
p_createRound_unguarded(cl, d, roundNumber, prize, blockNumber, duration, ms) ==
    Done(db_createRound(d, roundNumber, durationOrDefault(duration), prize, blockNumber, ms))

p_createRound(cl, d, roundNumber, prize, blockNumber, duration, ms) ==
    IF cl.client = 0 \/ ~cl.connected THEN Refuse(d, "not_connected")
    ELSE Done(db_createRound(d, roundNumber, durationOrDefault(duration), prize, blockNumber, ms))

p_submitGuess(cl, d, roundId, address, username, guess, pfpUrl, ms) ==
    IF cl.client = 0 \/ ~cl.connected THEN Refuse(d, "not_connected")
    ELSE IF ~HasId(cl.rounds, roundId) \/ Find(cl.rounds, roundId).status # "open"
         THEN Refuse(d, "not_open")
    ELSE IF ms >= Find(cl.rounds, roundId).endTime THEN Refuse(d, "expired")
    ELSE IF \E i \in DOMAIN cl.guesses :
               cl.guesses[i].roundId = roundId /\ cl.guesses[i].address = address
         THEN Refuse(d, "duplicate")
    ELSE IF Len(address.hex) = 0 THEN Refuse(d, "error")
    ELSE Done(db_submitGuess(d, BigInt(roundId), addressToBigInt(address),
                             username, guess, pfpUrl, ms))

\* guesses.some(g => g.roundId === roundId && g.address.toLowerCase() === address.toLowerCase())
hasUserGuessed(gv, roundId, address) ==
    \E i \in DOMAIN gv : gv[i].roundId = roundId /\ gv[i].address = address

p_endRound(cl, d, roundId, ms) ==
    IF cl.client = 0 \/ ~cl.connected THEN Refuse(d, "not_connected")
    ELSE IF ~HasId(cl.rounds, roundId) \/ Find(cl.rounds, roundId).status # "open"
         THEN Refuse(d, "not_open")
    ELSE Done(db_endRoundManually(d, BigInt(roundId), ms))

p_updateRoundResult(cl, d, roundId, actualTxCount, blockHash, winningAddress, ms) ==
    IF cl.client = 0 \/ ~cl.connected THEN Refuse(d, "not_connected")
    ELSE IF Len(winningAddress.hex) = 0 THEN Refuse(d, "error")
    ELSE Done(db_updateRoundResult(d, BigInt(roundId), actualTxCount, blockHash,
                                   addressToBigInt(winningAddress), ms))

p_addChatMessage(cl, d, message, ms) ==
    IF cl.client = 0 \/ ~cl.connected THEN Refuse(d, "not_connected")
    ELSE Done(db_sendChatMessage(d, message.roundId, message.address, message.username,
                                 message.message, message.pfpUrl, message.type, ms))


(***************************************************************************)
(* Winner selection (tick, step 3): stable sort by distance to the actual  *)
(* count, then by submittedAt; the first element wins.                     *)
(***************************************************************************)
\* variant: sorts by distance only
selectWinner_noTieBreak(roundGuesses, actualTxCount) ==
    LET cmp(a, b) == Abs(a.guess - actualTxCount) - Abs(b.guess - actualTxCount)
    IN  sort(cmp, roundGuesses)[1]

selectWinner(roundGuesses, actualTxCount) ==
    LET cmp(a, b) ==
            LET da  == Abs(a.guess - actualTxCount)
                dbb == Abs(b.guess - actualTxCount)
            IN  IF da # dbb THEN da - dbb ELSE a.submittedAt - b.submittedAt
    IN  sort(cmp, roundGuesses)[1]

\* variant: the guesses of the round are taken newest first
guessesOfRound_newestFirst(list, roundId) ==
    LET Test(g) == g.roundId = roundId
        kept    == SeqFilter(Test, list)
    IN  [k \in 1..Len(kept) |-> kept[Len(kept) + 1 - k]]

\* guesses.filter(g => g.roundId === roundRef.id)
guessesOfRound(list, roundId) ==
    LET Test(g) == g.roundId = roundId IN SeqFilter(Test, list)

winnerMessage(winner, actualTxCount, target) ==
    [id |-> <<>>, roundId |-> "global", address |-> winner.address,
     username |-> winner.username,
     message |-> <<"Winner", winner.username, winner.guess, actualTxCount, target>>,
     pfpUrl |-> winner.pfpUrl, type |-> "winner"]

(***************************************************************************)
(* The auto-close effect and its ticks                                     *)
(***************************************************************************)
IdleEffect == [live |-> FALSE, interval |-> FALSE, roundRef |-> Null, guesses |-> <<>>]

Blank(pc) == [pc |-> pc, current |-> FALSE, roundRef |-> Null, guesses |-> <<>>,
              blockHash |-> "", actualTxCount |-> 0, winner |-> Null]

\* const activeRound = rounds.find(r => r.status === 'open') || null
activeRound(rv) ==
    LET Open(r) == r.status = "open"
        open    == SeqFilter(Open, rv)
    IN  IF Len(open) = 0 THEN Null ELSE Some(open[1])

\* variant: the effect makes its initial check and sets no interval
runEffect_noInterval(rv, gv, cli, conn) ==
    LET ar == activeRound(rv)
    IN  IF ~IsSet(ar) \/ cli = 0 \/ ~conn THEN IdleEffect
        ELSE IF Val(ar).status # "open" THEN IdleEffect
        ELSE IF ~IsSet(Val(ar).blockNumber) THEN IdleEffect
        ELSE [live |-> TRUE, interval |-> FALSE, roundRef |-> ar, guesses |-> gv]

\* the effect body: its guards, and the closure it captures
runEffect(rv, gv, cli, conn) ==
    LET ar == activeRound(rv)
    IN  IF ~IsSet(ar) \/ cli = 0 \/ ~conn THEN IdleEffect
        ELSE IF Val(ar).status # "open" THEN IdleEffect
        ELSE IF ~IsSet(Val(ar).blockNumber) THEN IdleEffect
        ELSE [live |-> TRUE, interval |-> TRUE, roundRef |-> ar, guesses |-> gv]

\* a tick started by the effect run e: past the `cancelled` test, awaiting checkBlock
newTick(e) == [pc |-> "check", current |-> TRUE, roundRef |-> e.roundRef,
               guesses |-> e.guesses, blockHash |-> "", actualTxCount |-> 0,
               winner |-> Null]

FreeSlots(tk) == {i \in DOMAIN tk : tk[i].pc = "idle"}
FirstFree(tk) == CHOOSE i \in FreeSlots(tk) : \A j \in FreeSlots(tk) : i <= j

\* the closure of a tick: the effect runs only while connected, and the
\* round it refers to is the open round of that render
tickClosure(t) == [client |-> client, connected |-> TRUE,
                   rounds |-> <<Val(t.roundRef)>>, guesses |-> t.guesses]

\* variant: the cleanup leaves the ticks of the previous run uncancelled
cleanupTicks_keepsRunning(tk) == tk

\* cleanup of the previous effect run: cancelled = true; clearInterval(interval)
cleanupTicks(tk) == [i \in DOMAIN tk |-> [tk[i] EXCEPT !.current = FALSE]]

\* finally { clearInterval(interval) }
clearInterval(e, t) == IF t.current THEN [e EXCEPT !.interval = FALSE] ELSE e

(***************************************************************************)
(* Render: apply the first k queued state updaters; when the rounds array  *)
(* is replaced, endRound and activeRound change and the auto-close effect  *)
(* is cleaned up and run again.                                            *)
(***************************************************************************)
applyUpdater(st, e) ==
    IF e.table = "rounds" THEN
        IF e.op = "load" THEN [st EXCEPT !.rounds = e.rows, !.changed = TRUE]
        ELSE IF e.op = "insert" THEN
            IF HasId(st.rounds, e.row.id) THEN st
            ELSE [st EXCEPT !.rounds = roundsOnInsert(@, e.row), !.changed = TRUE]
        ELSE [st EXCEPT !.rounds = roundsOnUpdate(@, e.row), !.changed = TRUE]
    ELSE IF e.table = "guesses" THEN
        IF e.op = "load" THEN [st EXCEPT !.guesses = e.rows]
        ELSE [st EXCEPT !.guesses = guessesOnInsert(@, e.row)]
    ELSE IF e.table = "chatMessages" THEN
        IF e.op = "load" THEN [st EXCEPT !.chatMessages = e.rows]
        ELSE [st EXCEPT !.chatMessages = chatOnInsert(@, e.row)]
    ELSE
        IF e.op = "load" THEN [st EXCEPT !.prizeConfig = Some(e.rows[1])]
        ELSE [st EXCEPT !.prizeConfig = Some(e.row)]

RECURSIVE applyUpdaters(_, _)
applyUpdaters(st, evs) ==
    IF Len(evs) = 0 THEN st
    ELSE applyUpdaters(applyUpdater(st, Head(evs)), Tail(evs))

Render(k) ==
    /\ k \in 1..Len(pending)
    /\ LET st == applyUpdaters([rounds |-> rounds, guesses |-> guesses,
                                chatMessages |-> chatMessages,
                                prizeConfig |-> prizeConfig, changed |-> FALSE],
                               SubSeq(pending, 1, k))
           e  == IF st.changed THEN runEffect(st.rounds, st.guesses, client, connected)
                 ELSE effect
       IN  /\ (st.changed /\ e.live) => FreeSlots(ticks) # {}
           /\ rounds' = st.rounds
           /\ guesses' = st.guesses
           /\ chatMessages' = st.chatMessages
           /\ prizeConfig' = st.prizeConfig
           /\ pending' = SubSeq(pending, k + 1, Len(pending))
           /\ effect' = e
           /\ ticks' = IF ~st.changed THEN ticks
                       ELSE IF e.live
                            THEN [cleanupTicks(ticks) EXCEPT ![FirstFree(ticks)] = newTick(e)]
                            ELSE cleanupTicks(ticks)
    /\ UNCHANGED <<db, now, connVars, chain, sel, tableVars>>

\* a render after any number of the queued updaters
RenderSome == \E k \in 1..Len(pending) : Render(k)

\* a render after all queued updaters
RenderAll == Len(pending) > 0 /\ Render(Len(pending))


(***************************************************************************)
(* Calls of the provider's operations from the last render's closures.     *)
(***************************************************************************)
\* the reducer ran: the tables change and the listeners queue their updaters
Commit(r) ==
    /\ r.ok
    /\ db' = r.db
    /\ pending' = pending \o Notify(r.ev)

RoundIds == {String(n) : n \in 1..MaxRounds}

\* reducer calls made so far
Ops(d) == (d.logIdCounter - 1) + (d.chatIdCounter - 1)

CreateRound(roundNumber, prize, blockNumber, duration) ==
    /\ Ops(db) < MaxOps
    /\ db.roundIdCounter <= MaxRounds
    /\ Commit(p_createRound(Closure, db, roundNumber, prize, blockNumber, duration, now))
    /\ UNCHANGED <<now, connVars, viewVars, engineVars, sel, tableVars>>

SubmitGuess(roundId, user, guess) ==
    /\ Ops(db) < MaxOps
    /\ db.guessIdCounter <= MaxGuesses
    /\ Commit(p_submitGuess(Closure, db, roundId, user.address, user.username,
                            guess, user.pfpUrl, now))
    /\ UNCHANGED <<now, connVars, viewVars, engineVars, sel, tableVars>>

EndRound(roundId) ==
    /\ Ops(db) < MaxOps
    /\ Commit(p_endRound(Closure, db, roundId, now))
    /\ UNCHANGED <<now, connVars, viewVars, engineVars, sel, tableVars>>

finishedLogs(d, roundId) ==
    {i \in DOMAIN d.logs : /\ d.logs[i].val.eventType = "round_finished"
                           /\ d.logs[i].val.details = <<roundId>>}

UpdateRoundResult(roundId, actualTxCount, blockHash, winningAddress) ==
    /\ Ops(db) < MaxOps
    /\ Cardinality({i \in DOMAIN db.logs : db.logs[i].val.eventType = "round_finished"})
          < MaxResults
    /\ Commit(p_updateRoundResult(Closure, db, roundId, actualTxCount, blockHash,
                                  winningAddress, now))
    /\ UNCHANGED <<now, connVars, viewVars, engineVars, sel, tableVars>>

chatMessage(user, text) ==
    [id |-> <<>>, roundId |-> "global", address |-> user.address,
     username |-> user.username, message |-> text, pfpUrl |-> user.pfpUrl,
     type |-> "chat"]

AddChatMessage(user, limit) ==
    /\ db.chatIdCounter <= limit
    /\ Commit(p_addChatMessage(Closure, db, chatMessage(user, <<"gm">>), now))
    /\ UNCHANGED <<now, connVars, viewVars, engineVars, sel, tableVars>>

\* client.reducers.savePrizeConfig, called on the connection handle
SavePrizeConfig(jackpot, first, second) ==
    /\ client # 0
    /\ Ops(db) < MaxOps
    /\ db.configIdCounter <= MaxConfigs
    /\ LET r == db_savePrizeConfig(db, jackpot, first, second, "BTC", "0xtoken", now)
       IN  /\ db' = r.db
           /\ pending' = pending \o Notify(r.ev)
    /\ UNCHANGED <<now, connVars, viewVars, engineVars, sel, tableVars>>

AdvanceClock ==
    /\ now + ClockStep <= MaxNow
    /\ now' = now + ClockStep
    /\ UNCHANGED <<db, connVars, viewVars, pending, engineVars, sel, tableVars>>

(***************************************************************************)
(* Connection: the provider's initConnection effect, the callbacks of the  *)
(* connection builder, and the reconnect timer.                            *)
(***************************************************************************)
InitConnection ==
    /\ ~initStarted
    /\ CanConnect
    /\ initStarted' = TRUE
    /\ LET r == connectToSpacetime(cm, conns, outcomes)
       IN  /\ cm' = r.cm
           /\ conns' = r.conns
           /\ IF r.result # 0
              THEN /\ client' = r.result
                   /\ connected' = TRUE
                   /\ pending' = pending \o InitialLoads(db)
              ELSE /\ client' = client
                   /\ connected' = FALSE
                   /\ pending' = pending
    /\ UNCHANGED <<db, now, outcomes, retryTimers, viewVars, engineVars, sel, tableVars>>

OnConnect(c) ==
    /\ c \in DOMAIN conns
    /\ conns[c] = "pending"
    /\ outcomes[c] = "ok"
    /\ conns' = [conns EXCEPT ![c] = "live"]
    /\ cm' = [cm EXCEPT !.retryCount = 0, !.connectionError = Null]
    /\ UNCHANGED <<db, now, outcomes, retryTimers, initStarted, client, connected,
                   viewVars, pending, engineVars, sel, tableVars>>

OnConnectError(c) ==
    /\ c \in DOMAIN conns
    /\ conns[c] = "pending"
    /\ outcomes[c] = "drop"
    /\ conns' = [conns EXCEPT ![c] = "errored"]
    /\ cm' = [cm EXCEPT !.connectionError = Some("error")]
    /\ UNCHANGED <<db, now, outcomes, retryTimers, initStarted, client, connected,
                   viewVars, pending, engineVars, sel, tableVars>>

\* the transport of connection c closes; error tells whether it closed with an error
OnDisconnect(c, error) ==
    /\ c \in DOMAIN conns
    /\ \/ conns[c] = "errored" /\ error
       \/ conns[c] = "live"
    /\ conns' = [conns EXCEPT ![c] = IF conns[c] = "live" THEN "closed" ELSE "failed"]
    /\ cm' = [cm EXCEPT !.dbConnection = 0]
    /\ retryTimers' = IF error /\ cm.retryCount < MAX_RETRIES
                      THEN retryTimers + 1 ELSE retryTimers
    /\ UNCHANGED <<db, now, outcomes, initStarted, client, connected,
                   viewVars, pending, engineVars, sel, tableVars>>

RetryTimerFires ==
    /\ retryTimers > 0
    /\ CanConnect
    /\ retryTimers' = retryTimers - 1
    /\ LET c1 == [cm EXCEPT !.retryCount = @ + 1]
           r  == connectToSpacetime(c1, conns, outcomes)
       IN  /\ cm' = r.cm
           /\ conns' = r.conns
    /\ UNCHANGED <<db, now, outcomes, initStarted, client, connected,
                   viewVars, pending, engineVars, sel, tableVars>>


(***************************************************************************)
(* The block-data source and the polling ticks.  A tick runs from one      *)
(* await to the next in one step.                                          *)
(***************************************************************************)
MineBlock(hash, txCount) ==
    /\ ~chain.mined
    /\ chain' = [mined |-> TRUE, hash |-> hash, txCount |-> txCount]
    /\ UNCHANGED <<db, now, connVars, viewVars, pending, effect, ticks, sel, tableVars>>

\* setInterval(() => { void tick() }, 30000)
TickInterval ==
    /\ effect.live
    /\ effect.interval
    /\ FreeSlots(ticks) # {}
    /\ ticks' = [ticks EXCEPT ![FirstFree(ticks)] = newTick(effect)]
    /\ UNCHANGED <<db, now, connVars, viewVars, pending, effect, chain, sel, tableVars>>

\* variant: a tick that does not find the block stops the polling
TickCheckBlock_stopsPolling(i, found) ==
    /\ ticks[i].pc = "check"
    /\ found => chain.mined
    /\ IF ~found
       THEN /\ ticks' = [ticks EXCEPT ![i] = Blank("notfound")]
            /\ effect' = clearInterval(effect, ticks[i])
            /\ UNCHANGED <<db, pending>>
       ELSE LET r == p_endRound(tickClosure(ticks[i]), db, Val(ticks[i].roundRef).id, now)
            IN  /\ db' = r.db
                /\ pending' = pending \o Notify(r.ev)
                /\ ticks' = [ticks EXCEPT ![i].pc = "hash"]
                /\ effect' = effect
    /\ UNCHANGED <<now, connVars, viewVars, chain, sel, tableVars>>

\* found = await checkBlock(); if found: await endRound(roundRef.id)
TickCheckBlock(i, found) ==
    /\ ticks[i].pc = "check"
    /\ found => chain.mined
    /\ IF ~found
       THEN /\ ticks' = [ticks EXCEPT ![i] = Blank("notfound")]
            /\ UNCHANGED <<db, pending>>
       ELSE LET r == p_endRound(tickClosure(ticks[i]), db, Val(ticks[i].roundRef).id, now)
            IN  /\ db' = r.db
                /\ pending' = pending \o Notify(r.ev)
                /\ ticks' = [ticks EXCEPT ![i].pc = "hash"]
    /\ UNCHANGED <<now, connVars, viewVars, effect, chain, sel, tableVars>>

\* bh = await fetch(block-hash-by-height); if (!bh.ok) throw
TickBlockHash(i, ok) ==
    /\ ticks[i].pc = "hash"
    /\ IF ~ok
       THEN /\ ticks' = [ticks EXCEPT ![i] = Blank("failed")]
            /\ effect' = clearInterval(effect, ticks[i])
       ELSE /\ ticks' = [ticks EXCEPT ![i].pc = "txids", ![i].blockHash = chain.hash]
            /\ effect' = effect
    /\ UNCHANGED <<db, now, connVars, viewVars, pending, chain, sel, tableVars>>

\* variant: nothing is persisted when the round has no guesses
persistResult_skipEmpty(t, d, actualTxCount, ms) ==
    LET roundGuesses == guessesOfRound(t.guesses, Val(t.roundRef).id)
    IN  IF Len(roundGuesses) > 0
        THEN p_updateRoundResult(tickClosure(t), d, Val(t.roundRef).id, actualTxCount,
                                 t.blockHash, selectWinner(roundGuesses, actualTxCount).address, ms)
        ELSE [ok |-> TRUE, refusal |-> "", db |-> d, ev |-> <<>>]

\* the result the tick persists once the txids are known
persistResult(t, d, actualTxCount, ms) ==
    LET roundGuesses == guessesOfRound(t.guesses, Val(t.roundRef).id)
    IN  IF Len(roundGuesses) > 0
        THEN p_updateRoundResult(tickClosure(t), d, Val(t.roundRef).id, actualTxCount,
                                 t.blockHash, selectWinner(roundGuesses, actualTxCount).address, ms)
        ELSE p_updateRoundResult(tickClosure(t), d, Val(t.roundRef).id, actualTxCount,
                                 t.blockHash, NoWinner, ms)

\* tx = await fetch(block-txids); if (!tx.ok) throw; compute the winner;
\* await updateRoundResult(...)
TickTxids(i, ok) ==
    /\ ticks[i].pc = "txids"
    /\ LET t == ticks[i]
           roundGuesses == guessesOfRound(t.guesses, Val(t.roundRef).id)
           r == persistResult(t, db, chain.txCount, now)
       IN  IF ~ok \/ ~r.ok
           THEN /\ ticks' = [ticks EXCEPT ![i] = Blank("failed")]
                /\ effect' = clearInterval(effect, t)
                /\ UNCHANGED <<db, pending>>
           ELSE /\ db' = r.db
                /\ pending' = pending \o Notify(r.ev)
                /\ IF Len(roundGuesses) > 0
                   THEN /\ ticks' = [ticks EXCEPT
                               ![i].pc = "announce",
                               ![i].actualTxCount = chain.txCount,
                               ![i].winner = Some(selectWinner(roundGuesses, chain.txCount))]
                        /\ effect' = effect
                   ELSE /\ ticks' = [ticks EXCEPT ![i] = Blank("done")]
                        /\ effect' = clearInterval(effect, t)
    /\ UNCHANGED <<now, connVars, viewVars, chain, sel, tableVars>>

\* await addChatMessage({... type: 'winner'}); finally clearInterval(interval)
TickAnnounce(i) ==
    /\ ticks[i].pc = "announce"
    /\ LET t == ticks[i]
           r == p_addChatMessage(tickClosure(t), db,
                    winnerMessage(Val(t.winner), t.actualTxCount,
                                  Val(Val(t.roundRef).blockNumber)), now)
       IN  /\ db' = r.db
           /\ pending' = pending \o Notify(r.ev)
           /\ ticks' = [ticks EXCEPT ![i] = Blank("done")]
           /\ effect' = clearInterval(effect, t)
    /\ UNCHANGED <<now, connVars, viewVars, chain, sel, tableVars>>

\* the promise of a tick that ran to its end settles
TickReturns(i) ==
    /\ ticks[i].pc \in {"notfound", "done", "failed"}
    /\ ticks' = [ticks EXCEPT ![i] = Blank("idle")]
    /\ UNCHANGED <<db, now, connVars, viewVars, pending, effect, chain, sel, tableVars>>

\* the 30 s timer fires after the previous tick of this effect run has ended
TickIntervalAfterTick ==
    /\ \A i \in DOMAIN ticks : ticks[i].current => ticks[i].pc \in {"notfound", "done", "failed"}
    /\ TickInterval

(***************************************************************************)
(* Winner selection applied to drawn guess lists                           *)
(***************************************************************************)
SelGuess ==
    { [id |-> String(1), roundId |-> String(1), address |-> u.address,
       username |-> u.username, guess |-> g, pfpUrl |-> u.pfpUrl, submittedAt |-> t] :
      u \in Users, g \in {90, 95, 100, 105, 110}, t \in {0, 1000} }

SelLists == UNION {[1..n -> SelGuess] : n \in 1..MaxSel}

SelectWinner ==
    /\ ~IsSet(sel.winner)
    /\ sel' = [sel EXCEPT !.winner = Some(selectWinner(sel.guesses, sel.actualTxCount))]
    /\ UNCHANGED <<db, now, connVars, viewVars, pending, engineVars, tableVars>>

(***************************************************************************)
(* Teardown of the provider: React runs the cleanup of the auto-close       *)
(* effect; afterwards the component renders no more.                        *)
(***************************************************************************)
TornEffect == [live |-> FALSE, interval |-> FALSE, roundRef |-> Null, guesses |-> <<>>,
               torn |-> TRUE]

Mounted == effect # TornEffect

\* return () => { cancelled = true; clearInterval(interval) }
Unmount ==
    /\ Mounted
    /\ initStarted
    /\ effect' = TornEffect
    /\ ticks' = cleanupTicks(ticks)
    /\ UNCHANGED <<db, now, connVars, viewVars, pending, chain, sel, tableVars>>

(***************************************************************************)
(* Listeners registered on the rounds table besides the provider's, and    *)
(* iterations obtained from rounds_table.iter().                           *)
(***************************************************************************)
ListenerKinds == {"returns", "throws"}

NoSubs == [listeners |-> <<>>, ids |-> <<>>, nextId |-> 1, removed |-> {}, unsubs |-> 0,
           calls |-> <<>>, invoked |-> 0, threw |-> FALSE,
           atCall |-> [rounds |-> <<>>, logs |-> 0]]

\* position of a callback in the listener Set (insertion order), 0 if absent
indexOf(ids, id) ==
    IF \E i \in DOMAIN ids : ids[i] = id THEN CHOOSE i \in DOMAIN ids : ids[i] = id ELSE 0

\* variant: deleting a callback that is not in the Set removes the oldest one
setDelete_orOldest(ls, i) ==
    IF i = 0 THEN (IF Len(ls) = 0 THEN ls ELSE Tail(ls))
    ELSE SubSeq(ls, 1, i - 1) \o SubSeq(ls, i + 1, Len(ls))

\* this.roundsListeners.delete(callback)
setDelete(ls, i) ==
    IF i = 0 THEN ls
    ELSE SubSeq(ls, 1, i - 1) \o SubSeq(ls, i + 1, Len(ls))

\* this.roundsListeners.forEach(listener => listener({}, round)): the
\* listeners run in registration order up to the first one that throws
forEach(ls) ==
    LET throwing == {i \in DOMAIN ls : ls[i] = "throws"}
    IN  IF throwing = {} THEN [invoked |-> Len(ls), threw |-> FALSE]
        ELSE [invoked |-> CHOOSE i \in throwing : \A j \in throwing : i <= j,
              threw |-> TRUE]

\* variant: the log entry is appended before the listeners run
withoutLog_logged(d, stored) == stored

\* the tables while the listeners run, and for good when one of them throws:
\* the row is stored before the notification, addLog is the statement after it
withoutLog(d, stored) == [stored EXCEPT !.logs = d.logs, !.logIdCounter = d.logIdCounter]

\* what a listener finds in the tables when it is invoked by a reducer that
\* turns d into stored: the rounds iter() yields, and the number of log entries
observe(d, stored) ==
    [rounds |-> MapValues(withoutLog(d, stored).rounds),
     logs   |-> Len(withoutLog(d, stored).logs)]

\* client.db.rounds.onInsert(callback)
Subscribe(kind) ==
    /\ client # 0
    /\ subs.nextId <= MaxSubscribers
    /\ subs' = [subs EXCEPT !.listeners = Append(@, kind),
                            !.ids = Append(@, subs.nextId),
                            !.nextId = @ + 1]
    /\ UNCHANGED <<db, now, connVars, viewVars, pending, engineVars, sel, it>>

\* the function returned by onInsert is called:
\* () => this.roundsListeners.delete(callback)
Unsubscribe(id) ==
    /\ id \in 1..(subs.nextId - 1)
    /\ subs.unsubs < MaxUnsubscribes
    /\ subs' = [subs EXCEPT !.listeners = setDelete(@, indexOf(subs.ids, id)),
                            !.ids = setDelete(@, indexOf(subs.ids, id)),
                            !.removed = @ \cup {id},
                            !.unsubs = @ + 1]
    /\ UNCHANGED <<db, now, connVars, viewVars, pending, engineVars, sel, it>>

\* createRound on a table with further listeners: the provider's listener,
\* registered at mount, runs first
CreateRoundNotifying(roundNumber, prize, blockNumber, duration) ==
    /\ db.roundIdCounter <= MaxRounds
    /\ LET r == p_createRound(Closure, db, roundNumber, prize, blockNumber, duration, now)
           n == forEach(subs.listeners)
       IN  /\ r.ok
           /\ db' = IF n.threw THEN withoutLog(db, r.db) ELSE r.db
           /\ pending' = pending \o Notify(r.ev)
           /\ subs' = [subs EXCEPT !.invoked = n.invoked, !.threw = n.threw,
                                   !.calls = SubSeq(subs.ids, 1, n.invoked),
                                   !.atCall = observe(db, r.db)]
    /\ UNCHANGED <<now, connVars, viewVars, engineVars, sel, it>>

\* endRound with the provider's update listener observing the tables
EndRoundNotifying(roundId) ==
    /\ Ops(db) < MaxOps
    /\ LET r == p_endRound(Closure, db, roundId, now)
       IN  /\ r.ok
           /\ db' = r.db
           /\ pending' = pending \o Notify(r.ev)
           /\ subs' = [subs EXCEPT !.atCall = observe(db, r.db)]
    /\ UNCHANGED <<now, connVars, viewVars, engineVars, sel, it>>

\* updateRoundResult with the provider's update listener observing the tables
UpdateRoundResultNotifying(roundId, actualTxCount, blockHash, winningAddress) ==
    /\ Ops(db) < MaxOps
    /\ MapHas(db.rounds, BigInt(roundId))
    /\ LET r == p_updateRoundResult(Closure, db, roundId, actualTxCount, blockHash,
                                    winningAddress, now)
       IN  /\ r.ok
           /\ db' = r.db
           /\ pending' = pending \o Notify(r.ev)
           /\ subs' = [subs EXCEPT !.atCall = observe(db, r.db)]
    /\ UNCHANGED <<now, connVars, viewVars, engineVars, sel, it>>

NoIter == [open |-> FALSE, started |-> 0, pos |-> 0, atOpen |-> <<>>, seen |-> <<>>]

\* iter: () => this.rounds.values()
IterOpen ==
    /\ client # 0
    /\ ~it.open
    /\ it.started < MaxIterations
    /\ it' = [open |-> TRUE, started |-> it.started + 1, pos |-> 0,
              atOpen |-> MapKeys(db.rounds), seen |-> <<>>]
    /\ UNCHANGED <<db, now, connVars, viewVars, pending, engineVars, sel, subs>>

\* next() of the Map iterator: it walks the map itself, so it yields the
\* entry at its position if the map has one now, and is done otherwise
IterNext ==
    /\ it.open
    /\ it' = IF it.pos < Len(db.rounds)
             THEN [it EXCEPT !.pos = @ + 1,
                             !.seen = Append(@, db.rounds[it.pos + 1].val)]
             ELSE [it EXCEPT !.open = FALSE]
    /\ UNCHANGED <<db, now, connVars, viewVars, pending, engineVars, sel, subs>>

(***************************************************************************)
(* Specifications                                                          *)
(***************************************************************************)
InitProvider ==
    /\ cm = CmInit
    /\ conns = <<>>
    /\ retryTimers = 0
    /\ initStarted = FALSE
    /\ client = 0
    /\ connected = FALSE
    /\ rounds = <<>>
    /\ guesses = <<>>
    /\ chatMessages = <<>>
    /\ prizeConfig = Null
    /\ pending = <<>>
    /\ effect = IdleEffect
    /\ ticks = [i \in 1..MaxTicks |-> Blank("idle")]
    /\ chain = [mined |-> FALSE, hash |-> "", txCount |-> 0]
    /\ subs = NoSubs
    /\ it = NoIter

NoSel == [guesses |-> <<>>, actualTxCount |-> 0, winner |-> Null]

Init ==
    /\ InitProvider
    /\ db = EmptyDb
    /\ now = 0
    /\ outcomes = [i \in 1..MaxAttempts |-> "ok"]
    /\ sel = NoSel

ConnectionSteps ==
    \/ InitConnection
    \/ \E c \in 1..MaxAttempts : OnConnect(c)

\* the round lifecycle driven by callers of the provider's operations
Next ==
    \/ ConnectionSteps
    \/ \E pr \in Prizes, du \in Durations : CreateRound(db.roundIdCounter, pr, Null, du)
    \/ \E id \in RoundIds, u \in Users, g \in GuessValues : SubmitGuess(id, u, g)
    \/ \E id \in RoundIds : EndRound(id)
    \/ \E id \in RoundIds, n \in TxCounts, h \in BlockHashes, u \in Users :
           UpdateRoundResult(id, n, h, u.address)
    \/ RenderSome
    \/ AdvanceClock

Spec == Init /\ [][Next]_vars

\* every reducer of the store, called through the provider
NextStore ==
    \/ ConnectionSteps
    \/ \E pr \in Prizes, du \in Durations : CreateRound(db.roundIdCounter, pr, Null, du)
    \/ \E id \in RoundIds, u \in Users, g \in GuessValues : SubmitGuess(id, u, g)
    \/ \E id \in RoundIds : EndRound(id)
    \/ \E id \in RoundIds, n \in TxCounts, h \in BlockHashes, u \in Users :
           UpdateRoundResult(id, n, h, u.address)
    \/ \E u \in Users : Ops(db) < MaxOps /\ AddChatMessage(u, MaxChat)
    \/ SavePrizeConfig(1, 1, 1)
    \/ RenderAll

SpecStore == Init /\ [][NextStore]_vars

\* rounds with a target block, resolved by the auto-close effect
NextEngine ==
    \/ ConnectionSteps
    \/ \E pr \in Prizes, du \in Durations :
           CreateRound(db.roundIdCounter, pr, Some(TargetBlock), du)
    \/ \E id \in RoundIds, u \in Users, g \in GuessValues : SubmitGuess(id, u, g)
    \/ RenderSome
    \/ \E h \in BlockHashes, n \in TxCounts : MineBlock(h, n)
    \/ TickInterval
    \/ \E i \in 1..MaxTicks, found \in BOOLEAN : TickCheckBlock(i, found)
    \/ \E i \in 1..MaxTicks, ok \in BOOLEAN : TickBlockHash(i, ok)
    \/ \E i \in 1..MaxTicks, ok \in BOOLEAN : TickTxids(i, ok)
    \/ \E i \in 1..MaxTicks : TickAnnounce(i)

SpecEngine == Init /\ [][NextEngine]_vars

\* the chat feed of a provider that mounts on a store already holding rows
storedChat(n, split) ==
    [i \in 1..n |->
        [key |-> i,
         val |-> [chatId |-> i, roundId |-> "global", address |-> fidToAddress(1),
                  username |-> "alice", message |-> <<"gm">>, pfpUrl |-> "a.png",
                  timestamp |-> IF i <= split THEN 0 ELSE nowSeconds(ClockStep),
                  msgType |-> "chat"]]]

InitChat ==
    /\ InitProvider
    /\ outcomes = [i \in 1..MaxAttempts |-> "ok"]
    /\ sel = NoSel
    /\ \E n \in (CHAT_LIMIT - 1)..MaxStored, split \in {0, 1, MaxStored} :
          /\ db = [EmptyDb EXCEPT !.chatMessages = storedChat(n, split),
                                  !.chatIdCounter = n + 1]
          /\ now = IF split < n THEN ClockStep ELSE 0

NextChat ==
    \/ ConnectionSteps
    \/ AddChatMessage(CHOOSE u \in Users : u.username = "bob", MaxStored + MaxChat)
    \/ RenderSome
    \/ AdvanceClock

SpecChat == InitChat /\ [][NextChat]_vars

\* the connection module under every script of build outcomes
InitConn ==
    /\ InitProvider
    /\ db = EmptyDb
    /\ now = 0
    /\ outcomes \in [1..MaxAttempts -> Outcomes]
    /\ sel = NoSel

NextConn ==
    \/ InitConnection
    \/ \E c \in 1..MaxAttempts : OnConnect(c)
    \/ \E c \in 1..MaxAttempts : OnConnectError(c)
    \/ \E c \in 1..MaxAttempts, error \in BOOLEAN : OnDisconnect(c, error)
    \/ RetryTimerFires

SpecConn == InitConn /\ [][NextConn]_vars

\* a later mount of the provider calls connectToSpacetime() while the module
\* holds no connection
ConnectAgain ==
    /\ initStarted
    /\ cm.dbConnection = 0
    /\ CanConnect
    /\ LET r == connectToSpacetime(cm, conns, outcomes)
       IN  /\ cm' = r.cm
           /\ conns' = r.conns
    /\ UNCHANGED <<db, now, outcomes, retryTimers, initStarted, client, connected,
                   viewVars, pending, engineVars, sel, tableVars>>

\* the connection module with more than one caller of connectToSpacetime()
NextRetry ==
    \/ NextConn
    \/ ConnectAgain

SpecRetry == InitConn /\ [][NextRetry]_vars

\* winner selection on drawn guess lists
InitWinner ==
    /\ InitProvider
    /\ db = EmptyDb
    /\ now = 0
    /\ outcomes = [i \in 1..MaxAttempts |-> "ok"]
    /\ \E gs \in SelLists, n \in TxCounts :
          sel = [guesses |-> gs, actualTxCount |-> n, winner |-> Null]

NextWinner == SelectWinner

SpecWinner == InitWinner /\ [][NextWinner]_vars

\* the provider's operations called with arbitrary arguments
NextInputs ==
    \/ ConnectionSteps
    \/ \E pr \in Prizes, du \in DurationInputs : CreateRound(db.roundIdCounter, pr, Null, du)
    \/ \E id \in RoundIds, u \in Users, g \in GuessInputs : SubmitGuess(id, u, g)
    \/ RenderAll

SpecInputs == Init /\ [][NextInputs]_vars

\* rounds created at different times, with and without a target block
BlockNumbers == {Null, Some(TargetBlock)}

NextCreate ==
    \/ ConnectionSteps
    \/ \E pr \in Prizes, bn \in BlockNumbers, du \in DurationInputs :
           CreateRound(db.roundIdCounter, pr, bn, du)
    \/ AdvanceClock
    \/ RenderAll

SpecCreate == Init /\ [][NextCreate]_vars

\* one round with a target block and a block-data source whose requests may
\* fail at every step of the resolution
NextFail ==
    \/ ConnectionSteps
    \/ \E pr \in Prizes, du \in Durations :
           Len(db.rounds) = 0 /\ CreateRound(db.roundIdCounter, pr, Some(TargetBlock), du)
    \/ RenderSome
    \/ \E h \in BlockHashes, n \in TxCounts : MineBlock(h, n)
    \/ TickInterval
    \/ \E i \in 1..MaxTicks, found \in BOOLEAN : TickCheckBlock(i, found)
    \/ \E i \in 1..MaxTicks, ok \in BOOLEAN : TickBlockHash(i, ok)
    \/ \E i \in 1..MaxTicks, ok \in BOOLEAN : TickTxids(i, ok)

SpecFail == Init /\ [][NextFail]_vars

\* rounds entering and leaving the scope of the auto-close effect: created
\* with or without a target block, ended by a caller, the provider torn down
NextScope ==
    \/ ConnectionSteps
    \/ \E pr \in Prizes, bn \in BlockNumbers, du \in Durations :
           Mounted /\ CreateRound(db.roundIdCounter, pr, bn, du)
    \/ \E id \in RoundIds : Mounted /\ EndRound(id)
    \/ Mounted /\ RenderSome
    \/ TickInterval
    \/ \E i \in 1..MaxTicks : TickCheckBlock(i, FALSE)
    \/ \E i \in 1..MaxTicks : TickReturns(i)
    \/ Unmount

SpecScope == Init /\ [][NextScope]_vars

\* the rounds reducers with the provider's listeners observing the tables
NextNotify ==
    \/ ConnectionSteps
    \/ \E pr \in Prizes, du \in Durations :
           Ops(db) < MaxOps /\ CreateRoundNotifying(db.roundIdCounter, pr, Null, du)
    \/ \E id \in RoundIds : EndRoundNotifying(id)
    \/ \E id \in RoundIds, n \in TxCounts, h \in BlockHashes, u \in Users :
           UpdateRoundResultNotifying(id, n, h, u.address)
    \/ RenderSome

SpecNotify == Init /\ [][NextNotify]_vars

\* the prize configuration of a provider that mounts on a store holding the
\* configurations of earlier savePrizeConfig calls
Jackpots == {1, 2}

RECURSIVE savedBefore(_)
savedBefore(js) ==
    IF Len(js) = 0 THEN EmptyDb
    ELSE db_savePrizeConfig(savedBefore(SubSeq(js, 1, Len(js) - 1)), js[Len(js)],
                            1, 1, "BTC", "0xtoken", 0).db

InitPrize ==
    /\ InitProvider
    /\ now = 0
    /\ outcomes = [i \in 1..MaxAttempts |-> "ok"]
    /\ sel = NoSel
    /\ \E n \in 0..MaxConfigs : \E js \in [1..n -> Jackpots] : db = savedBefore(js)

NextPrize ==
    \/ ConnectionSteps
    \/ \E j \in Jackpots : SavePrizeConfig(j, 1, 1)
    \/ RenderSome
    \/ AdvanceClock

SpecPrize == InitPrize /\ [][NextPrize]_vars

\* the rounds table used directly: further listeners, and iterations
NextTables ==
    \/ ConnectionSteps
    \/ \E kind \in ListenerKinds : Subscribe(kind)
    \/ \E id \in 1..MaxSubscribers : Unsubscribe(id)
    \/ \E pr \in Prizes, du \in Durations :
           CreateRoundNotifying(db.roundIdCounter, pr, Null, du)
    \/ IterOpen
    \/ IterNext
    \/ RenderAll

SpecTables == Init /\ [][NextTables]_vars

\* the auto-close effect with a block-data source that answers every
\* request: checkBlock finds the block once it is mined and the hash and
\* txid fetches succeed; rendering, the timer and the ticks are scheduled
\* fairly, the mining of the block and the clock are not
NextLive ==
    \/ ConnectionSteps
    \/ \E pr \in Prizes, du \in Durations :
           Len(db.rounds) = 0 /\ CreateRound(db.roundIdCounter, pr, Some(TargetBlock), du)
    \/ RenderAll
    \/ AdvanceClock
    \/ \E h \in BlockHashes, n \in TxCounts : MineBlock(h, n)
    \/ TickIntervalAfterTick
    \/ \E i \in 1..MaxTicks : TickCheckBlock(i, chain.mined)
    \/ \E i \in 1..MaxTicks : TickBlockHash(i, TRUE)
    \/ \E i \in 1..MaxTicks : TickTxids(i, TRUE)
    \/ \E i \in 1..MaxTicks : TickReturns(i)

FairLive ==
    /\ WF_vars(ConnectionSteps)
    /\ WF_vars(RenderAll)
    /\ WF_vars(TickIntervalAfterTick)
    /\ \A i \in 1..MaxTicks :
          /\ WF_vars(TickCheckBlock(i, chain.mined))
          /\ WF_vars(TickBlockHash(i, TRUE))
          /\ WF_vars(TickTxids(i, TRUE))
          /\ WF_vars(TickReturns(i))

SpecLive == Init /\ [][NextLive]_vars /\ FairLive


(***************************************************************************)
(* Properties                                                              *)
(***************************************************************************)
Range(sq) == {sq[i] : i \in DOMAIN sq}
StoredRounds  == Range(MapValues(db.rounds))
StoredGuesses == Range(MapValues(db.guesses))
StoredChat    == Range(MapValues(db.chatMessages))
StoredLogs    == Range(MapValues(db.logs))

\* C1: the guesses table holds at most one guess per (roundId, user) pair,
\* also after back-to-back submissions from the same render.
OneGuessPerRoundAndUser ==
    \A i, j \in DOMAIN db.guesses :
        (/\ db.guesses[i].val.roundId = db.guesses[j].val.roundId
         /\ db.guesses[i].val.fid = db.guesses[j].val.fid) => i = j

\* C2: in every step the status of every stored round stays or moves forward
\* in the order open < closed < finished.
StatusRank(st) == IF st = "open" THEN 0 ELSE IF st = "closed" THEN 1 ELSE 2

StatusNeverDecreases ==
    [][\A i \in DOMAIN db.rounds :
          StatusRank(db.rounds'[i].val.status) >= StatusRank(db.rounds[i].val.status)]_vars

\* C3: however the ticks of the auto-close effect overlap, every round has at
\* most one round_finished log entry and at most one winner announcement.
WinnerAnnouncements == {c \in StoredChat : c.msgType = "winner"}

RoundResolvedOnce ==
    /\ \A r \in StoredRounds : Cardinality(finishedLogs(db, r.roundId)) <= 1
    /\ Cardinality(WinnerAnnouncements) <= Cardinality(StoredRounds)

\* C4: the selected winner is one of the guesses, no guess is closer to the
\* actual count, and no equally close guess was submitted earlier.
WinnerIsClosestThenEarliest ==
    IsSet(sel.winner) =>
        LET w == Val(sel.winner)
            Dist(g) == Abs(g.guess - sel.actualTxCount)
        IN  /\ w \in Range(sel.guesses)
            /\ \A g \in Range(sel.guesses) :
                  /\ Dist(w) <= Dist(g)
                  /\ Dist(g) = Dist(w) => w.submittedAt <= g.submittedAt

\* reached: two equidistant guesses, the later one in the list submitted earlier, wins
WinnerTieBrokenBySubmission ==
    /\ IsSet(sel.winner)
    /\ Len(sel.guesses) = 2
    /\ sel.guesses[1].guess = 90 /\ sel.guesses[1].submittedAt = 1000
    /\ sel.guesses[2].guess = 110 /\ sel.guesses[2].submittedAt = 0
    /\ Val(sel.winner) = sel.guesses[2]

\* C5: when a tick computes the winner, its candidates are all the guesses
\* stored for the round at that moment.
StoredGuessIds(roundId) ==
    {String(g.guessId) : g \in {x \in StoredGuesses : String(x.roundId) = roundId}}

CandidatesAreAllStoredGuesses ==
    [][\A i \in DOMAIN ticks :
          TickTxids(i, TRUE) =>
              LET id == Val(ticks[i].roundRef).id
              IN  {g.id : g \in Range(guessesOfRound(ticks[i].guesses, id))}
                      = StoredGuessIds(id)]_vars

\* C6: a tick that obtains the transaction ids of the target block for a round
\* without stored guesses records the count, the hash and the no-winner
\* identifier, and the round is finished.
NoGuessesStillFinished ==
    [][\A i \in DOMAIN ticks :
          (TickTxids(i, TRUE) /\ StoredGuessIds(Val(ticks[i].roundRef).id) = {}) =>
              LET roundId == BigInt(Val(ticks[i].roundRef).id)
                  r == MapGet(db.rounds', roundId)
              IN  /\ r.status = "finished"
                  /\ r.actualTxCount = Some(chain.txCount)
                  /\ r.blockHash = Some(chain.hash)
                  /\ r.winningFid = Some(addressToBigInt(NoWinner))
                  /\ Cardinality(finishedLogs(db', roundId))
                        = Cardinality(finishedLogs(db, roundId)) + 1]_vars

\* reached: a round without guesses finished by a tick with the no-winner identifier
FinishedWithoutGuesses ==
    \E r \in StoredRounds :
        /\ r.status = "finished"
        /\ r.winningFid = Some(0)
        /\ r.actualTxCount = Some(chain.txCount)
        /\ StoredGuessIds(String(r.roundId)) = {}
        /\ \E i \in DOMAIN ticks : ticks[i].pc = "done"

\* C7: the rendered chat list has at most 100 entries in non-increasing
\* timestamp order; once every queued updater is rendered it holds
\* min(100, stored) messages and no dropped message is newer than a kept one.
ChatFeedBoundedAndOrdered ==
    /\ Len(chatMessages) <= CHAT_LIMIT
    /\ \A i, j \in DOMAIN chatMessages :
          i < j => chatMessages[i].timestamp >= chatMessages[j].timestamp
    /\ (client # 0 /\ pending = <<>>) =>
          LET kept == {c.id : c \in Range(chatMessages)}
          IN  /\ kept \subseteq {String(c.chatId) : c \in StoredChat}
              /\ Cardinality(kept) = Len(chatMessages)
              /\ Len(chatMessages) =
                    (IF Len(db.chatMessages) < CHAT_LIMIT
                     THEN Len(db.chatMessages) ELSE CHAT_LIMIT)
              /\ \A c \in StoredChat : String(c.chatId) \notin kept =>
                    \A m \in Range(chatMessages) : toMillis(c.timestamp) <= m.timestamp

\* reached: more than 100 stored messages, loaded and then extended by an insert
ChatFeedFull ==
    /\ client # 0 /\ pending = <<>>
    /\ Len(db.chatMessages) > CHAT_LIMIT
    /\ Len(chatMessages) = CHAT_LIMIT
    /\ chatMessages[1].username = "bob"
    /\ chatMessages[1].timestamp > chatMessages[CHAT_LIMIT].timestamp

\* C8: submitGuess for a round stored as closed is refused as not open and
\* leaves the guesses table as it is, whatever the caller's render shows.
ClosedRoundRefusesGuess ==
    \A id \in RoundIds, u \in Users, g \in GuessValues :
        (/\ MapHas(db.rounds, BigInt(id))
         /\ MapGet(db.rounds, BigInt(id)).status = "closed") =>
            LET r == p_submitGuess(Closure, db, id, u.address, u.username, g, u.pfpUrl, now)
            IN  /\ ~r.ok
                /\ r.refusal = "not_open"
                /\ r.db.guesses = db.guesses

\* C9: when the first two connection builds fail and the third succeeds, then
\* once nothing is in flight the third connection is established and the
\* connectivity boolean is true.
TwoFailuresThenSuccess ==
    /\ outcomes[1] # "ok"
    /\ outcomes[2] # "ok"
    /\ outcomes[3] = "ok"

NothingInFlight ==
    /\ initStarted
    /\ retryTimers = 0
    /\ \A c \in DOMAIN conns : conns[c] \notin {"pending", "errored", "closed"}

ReconnectsOnThirdAttempt ==
    (TwoFailuresThenSuccess /\ NothingInFlight) =>
        /\ Len(conns) = 3
        /\ conns[3] = "live"
        /\ cm.dbConnection = 3
        /\ connected

\* C10: per table, the ids in insertion order are strictly increasing and
\* below the counter; a step adds only ids at or above the previous counter
\* value, never stores a second row under an id already handed out, and a
\* createRound adds exactly one round.
StrictlyIncreasing(keys) == \A i, j \in DOMAIN keys : i < j => keys[i] < keys[j]

IsPrefix(a, b) == Len(a) <= Len(b) /\ SubSeq(b, 1, Len(a)) = a

FreshIds(tbl, tblNext, counter, counterNext) ==
    /\ StrictlyIncreasing(MapKeys(tblNext))
    /\ IsPrefix(MapKeys(tbl), MapKeys(tblNext))
    /\ counter <= counterNext
    /\ \A i \in DOMAIN tblNext : tblNext[i].key < counterNext
    /\ \A i \in DOMAIN tblNext : i > Len(tbl) => tblNext[i].key >= counter

LastLogType(d) == IF Len(d.logs) = 0 THEN "" ELSE d.logs[Len(d.logs)].val.eventType

IdsStrictlyIncreasingNeverReused ==
    [][/\ FreshIds(db.rounds, db.rounds', db.roundIdCounter, db.roundIdCounter')
       /\ FreshIds(db.guesses, db.guesses', db.guessIdCounter, db.guessIdCounter')
       /\ FreshIds(db.chatMessages, db.chatMessages', db.chatIdCounter, db.chatIdCounter')
       /\ FreshIds(db.logs, db.logs', db.logIdCounter, db.logIdCounter')
       /\ FreshIds(db.prizeConfigs, db.prizeConfigs', db.configIdCounter, db.configIdCounter')
       /\ IsPrefix(db.guesses, db.guesses')
       /\ IsPrefix(db.chatMessages, db.chatMessages')
       /\ IsPrefix(db.logs, db.logs')
       /\ IsPrefix(db.prizeConfigs, db.prizeConfigs')
       /\ (Len(db.logs') > Len(db.logs) /\ LastLogType(db') = "round_created")
             => Len(db.rounds') = Len(db.rounds) + 1
       /\ (Len(db.logs') > Len(db.logs) /\ LastLogType(db') = "guess_submitted")
             => Len(db.guesses') = Len(db.guesses) + 1
       /\ (Len(db.logs') > Len(db.logs) /\ LastLogType(db') = "prize_config_saved")
             => Len(db.prizeConfigs') = Len(db.prizeConfigs) + 1]_vars

\* reached: several tables have received more than one insert
SeveralInsertsPerTable ==
    /\ Len(db.guesses) >= 2
    /\ Len(db.logs) >= 3
    /\ db.guesses[2].key = 2
    /\ db.logs[3].key = 3

\* C11: for every stored round, actualTxCount, blockHash and winningFid are
\* all unset or all set, and they are set only when the status is finished.
ResultFieldsOnlyWhenFinished ==
    \A r \in StoredRounds :
        LET set == {IsSet(r.actualTxCount), IsSet(r.blockHash), IsSet(r.winningFid)}
        IN  /\ Cardinality(set) = 1
            /\ TRUE \in set => r.status = "finished"

\* C12: no step takes a stored round from open to finished directly.
NoOpenToFinishedStep ==
    [][\A i \in DOMAIN db.rounds :
          ~(/\ db.rounds[i].val.status = "open"
            /\ db.rounds'[i].val.status = "finished")]_vars

\* C13: at most one stored round has status open.
AtMostOneOpenRound ==
    Cardinality({r \in StoredRounds : r.status = "open"}) <= 1

\* C14: endRound for a round stored as closed or finished is refused as not
\* open: the tables are unchanged, no log is appended, no listener is notified.
NonOpenRoundRefusesEnd ==
    \A id \in RoundIds :
        (/\ MapHas(db.rounds, BigInt(id))
         /\ MapGet(db.rounds, BigInt(id)).status # "open") =>
            LET r == p_endRound(Closure, db, id, now)
            IN  /\ ~r.ok
                /\ r.refusal = "not_open"
                /\ r.db = db
                /\ r.ev = <<>>

\* C15: every reducer call that changes the tables appends exactly one log entry.
OneLogPerReducerCall ==
    [][db' # db => Len(db.logs') = Len(db.logs) + 1]_vars

\* C16: createRound with a zero or negative duration changes no table, and
\* no stored round ends at or before its start.
NonPositiveDurationRejected ==
    [][/\ \A i \in DOMAIN db.rounds' :
             db.rounds'[i].val.endTime > db.rounds'[i].val.startTime
       /\ \A pr \in Prizes, du \in {Some(0), Some(0 - 1)} :
             CreateRound(db.roundIdCounter, pr, Null, du) => db' = db]_vars

\* C17: every stored guess value lies in 0..MAX_GUESS.
StoredGuessesInRange ==
    \A g \in StoredGuesses : g.guess >= 0 /\ g.guess <= MAX_GUESS

\* C18: a step that stores a guess finds its round stored with status open,
\* and the guess's submission time is before the round's end time.
GuessOnlyIntoOpenUnexpiredRound ==
    [][\A i \in DOMAIN db.guesses' :
          i > Len(db.guesses) =>
              LET g == db.guesses'[i].val
              IN  /\ MapHas(db.rounds, g.roundId)
                  /\ MapGet(db.rounds, g.roundId).status = "open"
                  /\ g.submittedAt < MapGet(db.rounds, g.roundId).endTime]_vars

\* C19: the prize configuration table holds at most one row.
AtMostOnePrizeConfigRow == Len(db.prizeConfigs) <= 1

\* C20: once the provider has subscribed and every queued updater is
\* rendered, its prizeConfig is the last saved configuration, the one
\* getLatest returns.
PrizeConfigIsLatestSaved ==
    (client # 0 /\ pending = <<>> /\ IsSet(getLatest(db))) =>
        prizeConfig = Some(convertPrizeConfig(Val(getLatest(db))))

\* C21: when createRound notifies the listeners of the rounds table, every
\* registered listener is invoked, also behind one that throws, and the
\* reducer completes: the round is stored and its log entry is appended.
ThrowingListenerIsIsolated ==
    [][Len(db.rounds') > Len(db.rounds) =>
          /\ subs'.invoked = Len(subs.listeners)
          /\ Len(db.logs') = Len(db.logs) + 1]_vars

\* C22: an iteration yields only rounds that were stored when iter() was
\* called.
IterationIsSnapshot ==
    \A i \in DOMAIN it.seen : it.seen[i].roundId \in Range(it.atOpen)

\* C23: while the effect polls for a round and the target block is
\* available, the round is eventually stored as finished with its result.
StoredAs(id, status) ==
    /\ MapHas(db.rounds, BigInt(id))
    /\ MapGet(db.rounds, BigInt(id)).status = status

ExpiredRoundEventuallyClosed ==
    \A id \in RoundIds :
        (/\ connected
         /\ StoredAs(id, "open")
         /\ now >= toMillis(MapGet(db.rounds, BigInt(id)).endTime))
            ~> ~StoredAs(id, "open")

\* C24: every round a tick finalizes gets a winner announcement on the global
\* channel, posted after updateRoundResult for that round: the tick that
\* persists a result goes on to the announcement, and a tick posts its
\* announcement only for a round whose result is already stored.
globalWinnerMessages(d) ==
    {i \in DOMAIN d.chatMessages : /\ d.chatMessages[i].val.msgType = "winner"
                                   /\ d.chatMessages[i].val.roundId = "global"}

EveryFinalizedRoundAnnounced ==
    [][\A i \in DOMAIN ticks :
          LET roundId == BigInt(Val(ticks[i].roundRef).id)
          IN  /\ (TickTxids(i, TRUE) /\ finishedLogs(db', roundId) # finishedLogs(db, roundId))
                    => ticks'[i].pc = "announce"
              /\ TickAnnounce(i)
                    => /\ finishedLogs(db, roundId) # {}
                       /\ Cardinality(globalWinnerMessages(db'))
                             = Cardinality(globalWinnerMessages(db)) + 1]_vars

\* C25: the connectivity boolean exposed to callers is true only while the
\* connection module holds a connection: it becomes false when the link is lost.
ConnectedImpliesLiveConnection ==
    connected => cm.dbConnection # 0

\* C26: retryCount never exceeds MAX_RETRIES, also when several connections
\* are lost before a scheduled reconnect timer fires.
RetryCountBounded ==
    cm.retryCount <= MAX_RETRIES

\* C27: no step changes or removes a stored guess, chat message or log entry
\* (nor a stored prize configuration); a stored round stays in its place under
\* its key and changes at most in status, actualTxCount, blockHash and
\* winningFid.
withoutResult(round) ==
    [round EXCEPT !.status = "", !.actualTxCount = Null,
                  !.blockHash = Null, !.winningFid = Null]

OnlyRoundResultMutates ==
    [][/\ IsPrefix(db.guesses, db.guesses')
       /\ IsPrefix(db.chatMessages, db.chatMessages')
       /\ IsPrefix(db.logs, db.logs')
       /\ IsPrefix(db.prizeConfigs, db.prizeConfigs')
       /\ Len(db.rounds) <= Len(db.rounds')
       /\ \A i \in DOMAIN db.rounds :
             /\ db.rounds'[i].key = db.rounds[i].key
             /\ withoutResult(db.rounds'[i].val) = withoutResult(db.rounds[i].val)]_vars

\* reached: guesses, chat messages and log entries are stored and a round has
\* been modified after its insertion
RowsStoredAndRoundModified ==
    /\ Len(db.guesses) >= 1
    /\ Len(db.chatMessages) >= 1
    /\ Len(db.logs) >= 3
    /\ \E r \in StoredRounds : r.status # "open"

\* C29: the round stored by createRound(roundNumber, durationMinutes, prize,
\* blockNumber) is open, has startTime = createdAt = the time of the call in
\* seconds, endTime = startTime + durationMinutes * 60, the given block
\* number, and no result fields.
CreatedRoundFields ==
    [][\A pr \in Prizes, bn \in BlockNumbers, du \in DurationInputs :
          (CreateRound(db.roundIdCounter, pr, bn, du) /\ db' # db) =>
              LET r == MapGet(db'.rounds, db.roundIdCounter)
              IN  /\ Len(db'.rounds) = Len(db.rounds) + 1
                  /\ r.roundNumber = db.roundIdCounter
                  /\ r.status = "open"
                  /\ r.startTime = now \div 1000
                  /\ r.createdAt = r.startTime
                  /\ r.durationMinutes = durationOrDefault(du)
                  /\ r.endTime = r.startTime + (durationOrDefault(du) * 60)
                  /\ r.prize = pr
                  /\ r.blockNumber = bn
                  /\ r.actualTxCount = Null
                  /\ r.blockHash = Null
                  /\ r.winningFid = Null]_vars

\* reached: a round with a target block created after the clock has advanced
RoundCreatedLater ==
    \E r \in StoredRounds :
        /\ r.startTime > 0
        /\ r.blockNumber = Some(TargetBlock)
        /\ r.endTime = r.startTime + 120
        /\ r.status = "open"

\* C30: a savePrizeConfig call on an empty table notifies the insert
\* subscribers only; every later call notifies the update subscribers only,
\* with the configuration stored by the previous call and the new one.
PrizeSubscribersNotified ==
    [][\A j \in Jackpots :
          SavePrizeConfig(j, 1, 1) =>
              LET ev       == db_savePrizeConfig(db, j, 1, 1, "BTC", "0xtoken", now).ev
                  stored   == MapValues(db.prizeConfigs)
                  storedN  == MapValues(db'.prizeConfigs)
              IN  /\ Len(ev) = 1
                  /\ ev[1].row = storedN[Len(storedN)]
                  /\ IF Len(stored) = 0
                     THEN ev[1].op = "insert"
                     ELSE /\ ev[1].op = "update"
                          /\ ev[1].old = Some(stored[Len(stored)])]_vars

UnknownRoundRefused ==
    \A id \in RoundIds, n \in TxCounts, h \in BlockHashes, u \in Users :
        ~MapHas(db.rounds, BigInt(id)) =>
            LET e == db_endRoundManually(db, BigInt(id), now)
                r == p_updateRoundResult(Closure, db, id, n, h, u.address, now)
            IN  /\ e.db = db
                /\ e.ev = <<>>
                /\ r.db = db
                /\ r.ev = <<>>
                /\ ~r.ok
                /\ (client # 0 /\ connected) => r.refusal = "not_found"

\* C33: a tick whose checkBlock request does not find the target block (the
\* block is not mined, or the request fails) returns without an error,
\* changes no table and queues no notification, and leaves the interval of
\* its effect run as it was, so the timer fires again.
BlockNotFoundChangesNothing ==
    [][\A i \in DOMAIN ticks :
          TickCheckBlock(i, FALSE) =>
              /\ db' = db
              /\ pending' = pending
              /\ effect' = effect
              /\ ticks'[i].pc = "notfound"]_vars

\* reached: after a tick that did not find the block, the round is still
\* open and a later tick of the same timer is checking again
CheckedAgainAfterNotFound ==
    \E i, j \in DOMAIN ticks :
        /\ ticks[i].pc = "notfound"
        /\ ticks[j].pc = "check"
        /\ ticks[j].current
        /\ effect.interval
        /\ StoredAs(Val(ticks[j].roundRef).id, "open")
        /\ Len(db.chatMessages) = 0

\* C34: when a tick fails after it has closed the round (a fetch fails or
\* persisting throws), the failure is caught, no interval is left polling the
\* round, and from then on the round is not finished by the engine.
TickFailed(i) ==
    \/ TickBlockHash(i, FALSE)
    \/ TickTxids(i, FALSE)

FailedResolutionStaysClosed ==
    [][/\ \A i \in DOMAIN ticks :
             TickFailed(i) =>
                 /\ ticks'[i].pc = "failed"
                 /\ ~(effect'.live /\ effect'.interval)
       /\ ((\E i \in DOMAIN ticks : ticks[i].pc = "failed") /\ ~StoredAs(String(1), "finished"))
             => ~StoredAs(String(1), "finished")']_vars

\* C35: an interval is live only for the round that is the active open round
\* of the current render and has a target block; every tick that may still
\* pass its `cancelled` test belongs to that effect run; the timer starts
\* ticks for that round only; when the round stops being the active round,
\* or the provider is torn down, the interval is cleared and the ticks of the
\* old run are cancelled.
PollingOnlyForActiveRound ==
    [][/\ (effect'.live /\ effect'.interval) =>
             /\ effect'.roundRef = activeRound(rounds')
             /\ Val(effect'.roundRef).status = "open"
             /\ IsSet(Val(effect'.roundRef).blockNumber)
       /\ \A i \in DOMAIN ticks :
             ticks'[i].current => (effect'.live /\ ticks'[i].roundRef = effect'.roundRef)
       /\ TickInterval =>
             /\ effect.live /\ effect.interval
             /\ ticks'[FirstFree(ticks)].roundRef = activeRound(rounds)
       /\ (effect.live /\ activeRound(rounds') # effect.roundRef) =>
             /\ effect'.roundRef # effect.roundRef
             /\ \A i \in DOMAIN ticks :
                   ticks'[i].roundRef = effect.roundRef => ~ticks'[i].current
       /\ Unmount =>
             /\ ~effect'.live /\ ~effect'.interval
             /\ \A i \in DOMAIN ticks : ~ticks'[i].current]_vars

\* reached: the polled round was ended by a caller and the render that shows
\* it closed has cancelled its polling, with a tick of the old run left over
PollingCancelledWhenRoundLeft ==
    /\ ~effect.live
    /\ Mounted
    /\ \E i \in DOMAIN ticks : ticks[i].pc # "idle" /\ ~ticks[i].current
    /\ \E i \in DOMAIN rounds : rounds[i].status = "closed" /\ IsSet(rounds[i].blockNumber)

\* C36: while the provider has no client or is not connected, createRound,
\* submitGuess, endRound, updateRoundResult and addChatMessage are refused as
\* not connected, whatever their arguments: no reducer runs, no table changes,
\* no listener is notified.
DisconnectedProviderRefuses ==
    (client = 0 \/ ~connected) =>
        \A id \in RoundIds, u \in Users, g \in GuessValues, pr \in Prizes,
           du \in DurationInputs, bn \in BlockNumbers, n \in TxCounts, h \in BlockHashes :
            LET calls ==
                  { p_createRound(Closure, db, db.roundIdCounter, pr, bn, du, now),
                    p_submitGuess(Closure, db, id, u.address, u.username, g, u.pfpUrl, now),
                    p_endRound(Closure, db, id, now),
                    p_updateRoundResult(Closure, db, id, n, h, u.address, now),
                    p_addChatMessage(Closure, db, chatMessage(u, <<"gm">>), now) }
            IN  \A r \in calls :
                    /\ ~r.ok
                    /\ r.refusal = "not_connected"
                    /\ r.db = db
                    /\ r.ev = <<>>

\* reached: the provider's connection attempt has failed and it is left
\* without a client
ProviderLeftDisconnected ==
    /\ initStarted
    /\ client = 0
    /\ ~connected
    /\ IsSet(cm.connectionError)

\* C37: the provider's rounds list never holds two entries with the same id,
\* and once every queued notification has been applied it has exactly one
\* entry per stored round, with the stored status and the stored result
\* fields (count, block hash, winner).
RoundsViewFaithful ==
    /\ \A i, j \in DOMAIN rounds : rounds[i].id = rounds[j].id => i = j
    /\ (connected /\ pending = <<>>) =>
          /\ Len(rounds) = Len(db.rounds)
          /\ \A i \in DOMAIN db.rounds :
                LET stored == db.rounds[i].val
                    id     == String(stored.roundId)
                IN  /\ HasId(rounds, id)
                    /\ Find(rounds, id).status = stored.status
                    /\ Find(rounds, id).actualTxCount = stored.actualTxCount
                    /\ Find(rounds, id).blockHash = stored.blockHash
                    /\ IsSet(Find(rounds, id).winningAddress) = IsSet(stored.winningFid)
                    /\ IsSet(stored.winningFid) =>
                          addressToBigInt(Val(Find(rounds, id).winningAddress))
                              = Val(stored.winningFid)

\* C38: when the listeners of the rounds table are invoked for an insert or
\* an update, iter() already yields the new row or the new value, and the
\* log entry of the operation is not yet there: it is appended after the
\* notification.
StoredBeforeNotifiedBeforeLogged ==
    [][/\ \A pr \in Prizes, du \in Durations :
             CreateRoundNotifying(db.roundIdCounter, pr, Null, du) =>
                 /\ subs'.atCall.rounds = MapValues(db'.rounds)
                 /\ Len(subs'.atCall.rounds) = Len(db.rounds) + 1
                 /\ subs'.atCall.logs = Len(db.logs)
                 /\ Len(db'.logs) = Len(db.logs) + 1
       /\ \A id \in RoundIds :
             EndRoundNotifying(id) =>
                 /\ subs'.atCall.rounds = MapValues(db'.rounds)
                 /\ MapGet(db'.rounds, BigInt(id)).status = "closed"
                 /\ subs'.atCall.logs = Len(db.logs)
                 /\ Len(db'.logs) = Len(db.logs) + 1
       /\ \A id \in RoundIds, n \in TxCounts, h \in BlockHashes, u \in Users :
             UpdateRoundResultNotifying(id, n, h, u.address) =>
                 /\ subs'.atCall.rounds = MapValues(db'.rounds)
                 /\ MapGet(db'.rounds, BigInt(id)).status = "finished"
                 /\ subs'.atCall.logs = Len(db.logs)
                 /\ Len(db'.logs) = Len(db.logs) + 1]_vars

\* reached: the listeners were invoked for an update, saw the finished round
\* in the table and one log entry fewer than the table has now
UpdateObservedBeforeLog ==
    /\ \E i \in DOMAIN subs.atCall.rounds : subs.atCall.rounds[i].status = "finished"
    /\ subs.atCall.logs >= 1
    /\ Len(db.logs) = subs.atCall.logs + 1
    /\ LastLogType(db) = "round_finished"

\* C39: once a guess of a user for a round is stored and its insert
\* notification has been rendered, hasUserGuessed is true for the address the
\* user submitted with, and a further submitGuess with that address is refused.
GuessRenderedFor(roundId, address) ==
    \E g \in StoredGuesses :
        /\ String(g.roundId) = roundId
        /\ g.fid = addressToBigInt(address)
        /\ HasId(guesses, String(g.guessId))

SubmittedAddressRecognised ==
    \A id \in RoundIds, u \in Users :
        GuessRenderedFor(id, u.address) =>
            /\ hasUserGuessed(guesses, id, u.address)
            /\ \A g \in GuessValues :
                  ~p_submitGuess(Closure, db, id, u.address, u.username, g, u.pfpUrl, now).ok

\* reached: a guess is rendered while its round is still open and rendered
\* as open, so that only the duplicate test stands against a second guess
GuessRenderedInOpenRound ==
    \E id \in RoundIds, u \in Users :
        /\ GuessRenderedFor(id, u.address)
        /\ StoredAs(id, "open")
        /\ HasId(rounds, id)
        /\ Find(rounds, id).status = "open"
        /\ now < Find(rounds, id).endTime
        /\ \A g \in GuessValues :
              p_submitGuess(Closure, db, id, u.address, u.username, g, u.pfpUrl, now).refusal
                  = "duplicate"

\* C40: when guesses of a round are equally close to the actual count and
\* have the same submittedAt, the tick chooses the one inserted first: the
\* lowest guess id, the earliest position in the guess list; computing the
\* winner again from the same list and count gives the same guess.
TieGoesToFirstInserted ==
    [][\A i \in DOMAIN ticks :
          (TickTxids(i, TRUE) /\ IsSet(ticks'[i].winner)) =>
              LET list    == ticks[i].guesses
                  roundId == Val(ticks[i].roundRef).id
                  w       == Val(ticks'[i].winner)
                  Dist(g) == Abs(g.guess - chain.txCount)
                  ties    == {k \in DOMAIN list : /\ list[k].roundId = roundId
                                                  /\ Dist(list[k]) = Dist(w)
                                                  /\ list[k].submittedAt = w.submittedAt}
              IN  /\ \E k \in ties : list[k] = w
                  /\ \A k \in ties : BigInt(w.id) <= BigInt(list[k].id)
                  /\ \A k \in ties : list[k] = w => \A j \in ties : k <= j
                  /\ selectWinner(guessesOfRound(list, roundId), chain.txCount) = w]_vars

\* reached: two guesses of one round, 90 and 110 against 100 transactions,
\* stored in the same second; the first of them is the winner a tick announces
FirstOfTiedGuessesWins ==
    \E i \in DOMAIN ticks :
        /\ ticks[i].pc = "announce"
        /\ Len(ticks[i].guesses) >= 2
        /\ ticks[i].guesses[1].roundId = ticks[i].guesses[2].roundId
        /\ ticks[i].guesses[1].submittedAt = ticks[i].guesses[2].submittedAt
        /\ Abs(ticks[i].guesses[1].guess - ticks[i].actualTxCount)
              = Abs(ticks[i].guesses[2].guess - ticks[i].actualTxCount)
        /\ ticks[i].guesses[1].guess # ticks[i].guesses[2].guess
        /\ Val(ticks[i].winner) = ticks[i].guesses[1]

====
